---- MODULE Spec2Model ----
(***************************************************************************)
(* State machine of src/lib.rs: the State struct (surface configuration,   *)
(* window size, clear colour, pipeline selector), its methods resize,      *)
(* input, update and render, and the event-loop closure of run() that      *)
(* dispatches window events to them.                                       *)
(*                                                                         *)
(* The wgpu surface is an external object.  It is modelled by a status     *)
(* (what the next get_current_texture returns), by the configuration last  *)
(* applied to it, and by the number of acquired targets that are neither   *)
(* presented nor dropped.  Every call the handlers make on the device,     *)
(* the surface, the queue, the window and the event loop is appended to    *)
(* `calls`, the call log of the most recent closure invocation.            *)
(***************************************************************************)
EXTENDS Integers, Sequences, FiniteSets, TLC

VARIABLES
    state,       \* `let mut state`: the State struct, with the surface it owns
                 \*   size            State.size: PhysicalSize<u32> as <<width, height>>
                 \*   config          State.config: wgpu::SurfaceConfiguration
                 \*   clear_colour    State.clear_colour: wgpu::Color
                 \*   use_colour      State.use_colour: bool
                 \*   fullscreen      state.window.fullscreen()
                 \*   surface         result of the next surface.get_current_texture()
                 \*   surface_config  the configuration last passed to surface.configure
                 \*   pending         acquired targets neither presented nor dropped
                 \*   calls           call log of the most recent closure invocation
    notified,    \* the size carried by the most recent Resized notification with
                 \*   both dimensions positive (window.inner_size() before any)
    exiting,     \* elwt.exit() has been called
    event,       \* the event handled by the most recent step (NoEvent if none)
    last_released,  \* the most recent Space key event delivered was a release
    last_pointer    \* <<x, y>> of the most recent CursorMoved delivered (<<>> if none)

vars == <<state, notified, exiting, event, last_released, last_pointer>>

----------------------------------------------------------------------------
(* The records of the model.  Each constructor lists its fields in one fixed *)
(* order, and every record of the model is built by one of them.            *)

\* a winit event: its kind, the position or size it carries (x, y), and for a
\* key event the logical key and the ElementState
Ev(kind, x, y, key, st) ==
    [state |-> st, kind |-> kind, x |-> x, y |-> y, key |-> key]

\* one call made by a handler
Call(op, arg) == [op |-> op, arg |-> arg]

\* wgpu::Color
Color(r, g, b, a) == [r |-> r, g |-> g, b |-> b, a |-> a]

\* wgpu::SurfaceConfiguration
SurfaceConfiguration(width, height, format, present_mode, alpha_mode) ==
    [width |-> width, height |-> height, format |-> format,
     present_mode |-> present_mode, alpha_mode |-> alpha_mode]

\* struct State, with the surface it owns and the call log
StateValue(size, config, clear_colour, use_colour, fullscreen, surface, surface_config, pending, calls) ==
    [size |-> size, config |-> config, clear_colour |-> clear_colour,
     use_colour |-> use_colour, fullscreen |-> fullscreen, surface |-> surface,
     surface_config |-> surface_config, pending |-> pending, calls |-> calls]

\* what an arm of the closure leaves: the State and whether elwt.exit() was called
Flow(self, exit) == [self |-> self, exit |-> exit]

\* Result<(), SurfaceError> of a call on the surface, with the State after it
Returned(self, result) == [self |-> self, result |-> result]

\* the bool State::input returns, with the State after it
Handled(self, consumed) == [self |-> self, consumed |-> consumed]

----------------------------------------------------------------------------
(* Bounds of the model and constants of the program *)

MaxDim == 2            \* Resized notifications carry dimensions 0..MaxDim
MaxPos == 1            \* CursorMoved positions have coordinates 2 * (0..MaxPos)
LogicalInnerSize == 128

Dims == 0..MaxDim
\* cursor coordinates are physical pixels: 0 and values beyond the range
\* [0, 1] of a colour channel
Positions == {2 * p : p \in 0..MaxPos}

\* with_inner_size(LogicalSize::new(128.0, 128.0)) at scale factor 1
InitialInnerSize == <<LogicalInnerSize, LogicalInnerSize>>

SurfaceErrors == {"Timeout", "Outdated", "Lost", "OutOfMemory"}
SurfaceStatuses == {"Ok"} \cup SurfaceErrors

\* the logical keys the model delivers; "q" stands for a character key the
\* closure does not bind, "Enter" for a named key it does not bind
Keys == {"Space", "Escape", "f", "b", "q", "Enter"}
NamedKeys == {"Space", "Escape", "Enter"}
ElementStates == {"Pressed", "Released"}

\* wgpu::Color::BLACK
BLACK == Color(0, 0, 0, 1)

\* surface_caps.formats, in the order the platform reports them
CapsFormats == <<"Bgra8Unorm", "Bgra8UnormSrgb">>
CapsPresentModes == <<"Fifo", "Mailbox">>
CapsAlphaModes == <<"Opaque">>

is_srgb(f) == f \in {"Bgra8UnormSrgb", "Rgba8UnormSrgb"}

\* surface_caps.formats.iter().copied().find(|f| f.is_srgb()).unwrap_or(formats[0])
surface_format ==
    IF \E i \in 1..Len(CapsFormats) : is_srgb(CapsFormats[i])
    THEN CapsFormats[CHOOSE i \in 1..Len(CapsFormats) :
                        /\ is_srgb(CapsFormats[i])
                        /\ \A j \in 1..(i - 1) : ~is_srgb(CapsFormats[j])]
    ELSE CapsFormats[1]

----------------------------------------------------------------------------
(* Events delivered to the closure *)

NoEvent == Ev("None", 0, 0, "", "")
CursorMovedEvent(x, y) == Ev("CursorMoved", x, y, "", "")
KeyboardInputEvent(key, st) == Ev("KeyboardInput", 0, 0, key, st)
RedrawRequestedEvent == Ev("RedrawRequested", 0, 0, "", "")
ResizedEvent(w, h) == Ev("Resized", w, h, "", "")
CloseRequestedEvent == Ev("CloseRequested", 0, 0, "", "")
FocusedEvent == Ev("Focused", 0, 0, "", "")
AboutToWaitEvent == Ev("AboutToWait", 0, 0, "", "")
LoopExitingEvent == Ev("LoopExiting", 0, 0, "", "")

----------------------------------------------------------------------------
(* The State value the methods work on, and the call log *)

Log(s, op, arg) == [s EXCEPT !.calls = Append(@, Call(op, arg))]

\* the State struct at the start of a closure invocation (empty call log)
Self == [state EXCEPT !.calls = <<>>]

----------------------------------------------------------------------------
(* The surface: wgpu calls made by State *)

\* surface.configure(&device, &config): the swap chain is rebuilt for cfg, so
\* a lost or outdated surface is usable again
configure(s, cfg) ==
    [Log(s, "configure", <<cfg.width, cfg.height>>)
        EXCEPT !.surface_config = cfg, !.surface = "Ok"]

\* surface.get_current_texture(): Ok hands out one target; an error hands out
\* none.  A timeout is over when the call returns, the other errors persist.
get_current_texture(s) ==
    IF s.surface = "Ok"
    THEN Returned([Log(s, "get_current_texture", <<"Ok">>)
                      EXCEPT !.pending = @ + 1],
                  "Ok")
    ELSE Returned([Log(s, "get_current_texture", <<s.surface>>)
                      EXCEPT !.surface = IF @ = "Timeout" THEN "Ok" ELSE @],
                  s.surface)

\* output.present(): consumes the acquired target
present(s) == [Log(s, "present", <<>>) EXCEPT !.pending = @ - 1]

----------------------------------------------------------------------------
(* Methods of State *)

\* State::new, the part after the window exists: the initial State value
new(window_size) ==
    LET cfg == SurfaceConfiguration(window_size[1], window_size[2], surface_format,
                                    CapsPresentModes[1], CapsAlphaModes[1])
        s0 == StateValue(window_size, cfg, BLACK, FALSE, "None", "Ok", cfg, 0, <<>>)
    IN configure(s0, cfg)

\* resize with the guard written with || instead of &&
resize_or_guard(s, new_size) ==
    LET s0 == Log(s, "resize", new_size)
    IN IF new_size[1] > 0 \/ new_size[2] > 0
       THEN LET s1 == [s0 EXCEPT !.size = new_size,
                                 !.config.width = new_size[1],
                                 !.config.height = new_size[2]]
            IN configure(s1, s1.config)
       ELSE s0

\* resize without the zero-area guard
resize_unguarded(s, new_size) ==
    LET s0 == Log(s, "resize", new_size)
        s1 == [s0 EXCEPT !.size = new_size,
                         !.config.width = new_size[1],
                         !.config.height = new_size[2]]
    IN configure(s1, s1.config)

\* resize that forgets surface.configure
resize_no_configure(s, new_size) ==
    LET s0 == Log(s, "resize", new_size)
    IN IF new_size[1] > 0 /\ new_size[2] > 0
       THEN [s0 EXCEPT !.size = new_size,
                       !.config.width = new_size[1],
                       !.config.height = new_size[2]]
       ELSE s0

\* resize that records the size but reconfigures with the old dimensions
resize_stale_config(s, new_size) ==
    LET s0 == Log(s, "resize", new_size)
    IN IF new_size[1] > 0 /\ new_size[2] > 0
       THEN LET s1 == [s0 EXCEPT !.size = new_size]
            IN configure(s1, s1.config)
       ELSE s0

\* resize that fills the configuration from the size stored before the call
resize_config_from_old_size(s, new_size) ==
    LET s0 == Log(s, "resize", new_size)
    IN IF new_size[1] > 0 /\ new_size[2] > 0
       THEN LET s1 == [s0 EXCEPT !.size = new_size,
                                 !.config.width = s.size[1],
                                 !.config.height = s.size[2]]
            IN configure(s1, s1.config)
       ELSE s0

\* resize that does not store the new size
resize_forgets_size(s, new_size) ==
    LET s0 == Log(s, "resize", new_size)
    IN IF new_size[1] > 0 /\ new_size[2] > 0
       THEN LET s1 == [s0 EXCEPT !.config.width = new_size[1],
                                 !.config.height = new_size[2]]
            IN configure(s1, s1.config)
       ELSE s0

\* State::resize
resize(s, new_size) ==
    LET s0 == Log(s, "resize", new_size)
    IN IF new_size[1] > 0 /\ new_size[2] > 0
       THEN LET s1 == [s0 EXCEPT !.size = new_size,
                                 !.config.width = new_size[1],
                                 !.config.height = new_size[2]]
            IN configure(s1, s1.config)
       ELSE s0

\* input that flips use_colour on every release of Space
input_flip_on_release(s, ev) ==
    CASE ev.kind = "CursorMoved" ->
            Handled([s EXCEPT !.clear_colour = Color(ev.x, ev.y, 1, 1)], TRUE)
      [] ev.kind = "KeyboardInput" /\ ev.key = "Space" ->
            Handled([s EXCEPT !.use_colour =
                                 IF ev.state = "Released" THEN ~@ ELSE @], TRUE)
      [] OTHER -> Handled(s, FALSE)

\* input with the cursor coordinates in each other's channel
input_swapped_axes(s, ev) ==
    CASE ev.kind = "CursorMoved" ->
            Handled([s EXCEPT !.clear_colour = Color(ev.y, ev.x, 1, 1)], TRUE)
      [] ev.kind = "KeyboardInput" /\ ev.key = "Space" ->
            Handled([s EXCEPT !.use_colour = (ev.state = "Released")], TRUE)
      [] OTHER -> Handled(s, FALSE)

\* input that returns false from its Space arm
input_space_falls_through(s, ev) ==
    CASE ev.kind = "CursorMoved" ->
            Handled([s EXCEPT !.clear_colour = Color(ev.x, ev.y, 1, 1)], TRUE)
      [] ev.kind = "KeyboardInput" /\ ev.key = "Space" ->
            Handled([s EXCEPT !.use_colour = (ev.state = "Released")], FALSE)
      [] OTHER -> Handled(s, FALSE)

\* input whose keyboard arm matches every logical key
input_consumes_keys(s, ev) ==
    CASE ev.kind = "CursorMoved" ->
            Handled([s EXCEPT !.clear_colour = Color(ev.x, ev.y, 1, 1)], TRUE)
      [] ev.kind = "KeyboardInput" /\ ev.key = "Space" ->
            Handled([s EXCEPT !.use_colour = (ev.state = "Released")], TRUE)
      [] ev.kind = "KeyboardInput" -> Handled(s, TRUE)
      [] OTHER -> Handled(s, FALSE)

\* State::input
input(s, ev) ==
    CASE ev.kind = "CursorMoved" ->
            Handled([s EXCEPT !.clear_colour = Color(ev.x, ev.y, 1, 1)], TRUE)
      [] ev.kind = "KeyboardInput" /\ ev.key = "Space" ->
            Handled([s EXCEPT !.use_colour = (ev.state = "Released")], TRUE)
      [] OTHER -> Handled(s, FALSE)

\* update that switches the pipeline every tick
update_flips_pipeline(s) == [s EXCEPT !.use_colour = ~@]

\* State::update
update(s) == s

\* the render pass with the two pipelines exchanged
render_pass_swapped_pipelines(s) ==
    LET s1 == Log(s, "begin_render_pass", <<"Clear", s.clear_colour, "Store">>)
        s2 == Log(s1, "set_pipeline",
                  <<IF s.use_colour THEN "render_pipeline2" ELSE "render_pipeline">>)
        s3 == Log(s2, "draw", <<0, 3, 0, 1>>)
    IN Log(s3, "end_render_pass", <<>>)

\* the render pass scope of State::render
render_pass(s) ==
    LET s1 == Log(s, "begin_render_pass", <<"Clear", s.clear_colour, "Store">>)
        s2 == Log(s1, "set_pipeline",
                  <<IF s.use_colour THEN "render_pipeline" ELSE "render_pipeline2">>)
        s3 == Log(s2, "draw", <<0, 3, 0, 1>>)
    IN Log(s3, "end_render_pass", <<>>)

\* render that presents the target before the commands are submitted
render_present_first(s) ==
    LET a == get_current_texture(s)
    IN IF a.result # "Ok"
       THEN Returned(a.self, a.result)
       ELSE LET s1 == Log(a.self, "create_view", <<>>)
                s2 == Log(s1, "create_command_encoder", <<>>)
                s3 == render_pass(s2)
                s4 == present(s3)
            IN Returned(Log(s4, "submit", <<>>), "Ok")

\* render that keeps the acquired target instead of presenting it
render_no_present(s) ==
    LET a == get_current_texture(s)
    IN IF a.result # "Ok"
       THEN Returned(a.self, a.result)
       ELSE LET s1 == Log(a.self, "create_view", <<>>)
                s2 == Log(s1, "create_command_encoder", <<>>)
                s3 == render_pass(s2)
            IN Returned(Log(s3, "submit", <<>>), "Ok")

\* State::render
render(s) ==
    LET a == get_current_texture(s)
    IN IF a.result # "Ok"
       THEN Returned(a.self, a.result)
       ELSE LET s1 == Log(a.self, "create_view", <<>>)
                s2 == Log(s1, "create_command_encoder", <<>>)
                s3 == render_pass(s2)
                s4 == Log(s3, "submit", <<>>)
            IN Returned(present(s4), "Ok")

----------------------------------------------------------------------------
(* The event-loop closure of run() *)

Continue(s) == Flow(s, FALSE)
Exit(s) == Flow(Log(s, "exit", <<>>), TRUE)

\* the match without its Lost arm: Lost is logged like any other error
match_render_result_no_lost(s, result) ==
    CASE result = "Ok" -> Continue(s)
      [] result = "OutOfMemory" -> Exit(s)
      [] OTHER -> Continue(Log(s, "eprintln", <<result>>))

\* the match without its OutOfMemory arm: OutOfMemory is logged and the loop goes on
match_render_result_no_exit(s, result) ==
    CASE result = "Ok" -> Continue(s)
      [] result = "Lost" -> Continue(resize(s, s.size))
      [] OTHER -> Continue(Log(s, "eprintln", <<result>>))

\* the match with every error but OutOfMemory recovered by resize
match_render_result_all_resize(s, result) ==
    CASE result = "Ok" -> Continue(s)
      [] result = "OutOfMemory" -> Exit(s)
      [] OTHER -> Continue(resize(s, s.size))

\* match state.render() { ... }
match_render_result(s, result) ==
    CASE result = "Ok" -> Continue(s)
      [] result = "Lost" -> Continue(resize(s, s.size))
      [] result = "OutOfMemory" -> Exit(s)
      [] OTHER -> Continue(Log(s, "eprintln", <<result>>))

\* WindowEvent::RedrawRequested => { ... }
redraw_requested(s) ==
    LET r == render(update(s))
        m == match_render_result(r.self, r.result)
    IN Flow(Log(m.self, "pre_present_notify", <<>>), m.exit)

set_fullscreen(s, mode) ==
    [Log(s, "set_fullscreen", <<mode>>) EXCEPT !.fullscreen = mode]

\* the key match with every named key but Space bound to exit
key_pressed_named_exits(s, key) ==
    CASE key \in NamedKeys -> Exit(s)
      [] key \notin NamedKeys /\ key \in {"f", "b"} /\ s.fullscreen # "None" ->
            Continue(set_fullscreen(s, "None"))
      [] key \notin NamedKeys /\ key = "f" /\ s.fullscreen = "None" ->
            Continue(set_fullscreen(s, "Exclusive"))
      [] key \notin NamedKeys /\ key = "b" /\ s.fullscreen = "None" ->
            Continue(set_fullscreen(s, "Borderless"))
      [] OTHER -> Continue(s)

\* WindowEvent::KeyboardInput { state: Pressed, logical_key: key } => match key
key_pressed(s, key) ==
    CASE key = "Escape" -> Exit(s)
      [] key \notin NamedKeys /\ key \in {"f", "b"} /\ s.fullscreen # "None" ->
            Continue(set_fullscreen(s, "None"))
      [] key \notin NamedKeys /\ key = "f" /\ s.fullscreen = "None" ->
            Continue(set_fullscreen(s, "Exclusive"))
      [] key \notin NamedKeys /\ key = "b" /\ s.fullscreen = "None" ->
            Continue(set_fullscreen(s, "Borderless"))
      [] OTHER -> Continue(s)

\* Event::WindowEvent { .. } => if !state.input(event) { match event ... }
window_event(s, ev) ==
    LET i == input(s, ev)
        \* the call of state.input and the bool it returned
        s1 == Log(i.self, "input", <<i.consumed>>)
    IN IF i.consumed
       THEN Continue(s1)
       ELSE CASE ev.kind = "CloseRequested" -> Exit(s1)
              [] ev.kind = "KeyboardInput" /\ ev.state = "Pressed" ->
                    key_pressed(s1, ev.key)
              [] ev.kind = "RedrawRequested" -> redraw_requested(s1)
              [] ev.kind = "Resized" ->
                    Continue(resize(s1, <<ev.x, ev.y>>))
              [] OTHER -> Continue(s1)

\* event_loop.run(move |event, elwt| { match event { ... } })
closure(s, ev) ==
    CASE ev.kind = "AboutToWait" -> Continue(Log(s, "request_redraw", <<>>))
      [] ev.kind = "LoopExiting" -> Continue(s)
      [] OTHER -> window_event(s, ev)

----------------------------------------------------------------------------
(* Specification *)

\* run() up to event_loop.run: the window is built and State::new has run
Init ==
    /\ state = new(InitialInnerSize)
    /\ notified = InitialInnerSize
    /\ exiting = FALSE
    /\ event = NoEvent
    /\ last_released = FALSE
    /\ last_pointer = <<>>

\* one invocation of the closure with the event ev
Deliver(ev) ==
    /\ \E r \in {closure(Self, ev)} :
          /\ state' = r.self
          /\ exiting' = r.exit
    /\ notified' = IF ev.kind = "Resized" /\ ev.x > 0 /\ ev.y > 0
                   THEN <<ev.x, ev.y>>
                   ELSE notified
    /\ event' = ev
    /\ last_released' = IF ev.kind = "KeyboardInput" /\ ev.key = "Space"
                        THEN ev.state = "Released"
                        ELSE last_released
    /\ last_pointer' = IF ev.kind = "CursorMoved" THEN <<ev.x, ev.y>> ELSE last_pointer

\* The loop delivers events until elwt.exit() has been called; after that it
\* delivers LoopExiting only.

CursorMoved ==
    /\ ~exiting
    /\ \E x \in Positions, y \in Positions : Deliver(CursorMovedEvent(x, y))

KeyboardInput ==
    /\ ~exiting
    /\ \E key \in Keys, st \in ElementStates : Deliver(KeyboardInputEvent(key, st))

RedrawRequested ==
    /\ ~exiting
    /\ Deliver(RedrawRequestedEvent)

Resized ==
    /\ ~exiting
    /\ \E w \in Dims, h \in Dims : Deliver(ResizedEvent(w, h))

CloseRequested ==
    /\ ~exiting
    /\ Deliver(CloseRequestedEvent)

Focused ==
    /\ ~exiting
    /\ Deliver(FocusedEvent)

AboutToWait ==
    /\ ~exiting
    /\ Deliver(AboutToWaitEvent)

\* the last invocation of the closure, after elwt.exit()
LoopExiting ==
    /\ exiting
    /\ event # LoopExitingEvent
    /\ state' = closure(Self, LoopExitingEvent).self
    /\ event' = LoopExitingEvent
    /\ UNCHANGED <<notified, exiting, last_released, last_pointer>>

\* the platform changes what the surface answers to the next acquisition
SurfaceEvent ==
    /\ ~exiting
    /\ state.surface = "Ok"
    /\ \E e \in SurfaceErrors : state' = [state EXCEPT !.surface = e, !.calls = <<>>]
    /\ event' = NoEvent
    /\ UNCHANGED <<notified, exiting, last_released, last_pointer>>

Next ==
    \/ CursorMoved
    \/ KeyboardInput
    \/ RedrawRequested
    \/ Resized
    \/ CloseRequested
    \/ Focused
    \/ AboutToWait
    \/ LoopExiting
    \/ SurfaceEvent

Spec == Init /\ [][Next]_vars

TypeOK ==
    /\ state.size \in (Nat \X Nat)
    /\ state.config.width \in Nat /\ state.config.height \in Nat
    /\ state.use_colour \in BOOLEAN
    /\ state.fullscreen \in {"None", "Exclusive", "Borderless"}
    /\ state.surface \in SurfaceStatuses
    /\ state.pending \in Nat
    /\ exiting \in BOOLEAN
    /\ last_released \in BOOLEAN
    /\ last_pointer \in {<<>>} \cup (Positions \X Positions)

----------------------------------------------------------------------------
(* Reading the call log *)

\* how often op was called
Count(c, op) == Cardinality({i \in 1..Len(c) : c[i].op = op})

\* index of the first call of op
Pos(c, op) ==
    CHOOSE i \in 1..Len(c) : c[i].op = op /\ \A j \in 1..(i - 1) : c[j].op # op

\* the arguments of the calls of op, in call order
ArgsOf(c, op) ==
    LET sel == SelectSeq(c, LAMBDA e : e.op = op)
    IN [i \in 1..Len(sel) |-> sel[i].arg]

\* what the single acquisition of the invocation returned ("None": not exactly one)
Acquisition(c) ==
    IF Count(c, "get_current_texture") = 1
    THEN c[Pos(c, "get_current_texture")].arg[1]
    ELSE "None"

\* a redraw tick whose acquisition returned r
Tick(ev, c, r) == ev.kind = "RedrawRequested" /\ Acquisition(c) = r

\* nothing of a frame beyond the acquisition was done
NoDraw(c) ==
    \A op \in {"begin_render_pass", "set_pipeline", "draw", "submit", "present"} :
        Count(c, op) = 0

\* no call at all that belongs to a frame
NoFrame(c) == NoDraw(c) /\ Count(c, "get_current_texture") = 0

ConfigSize(cfg) == <<cfg.width, cfg.height>>

\* targets acquired and not yet presented after the first k calls
Outstanding(c, k) ==
    Cardinality({i \in 1..k : c[i].op = "get_current_texture" /\ c[i].arg = <<"Ok">>})
    - Cardinality({i \in 1..k : c[i].op = "present"})

\* the steps of a frame, in the order the protocol wants them
FrameOrder ==
    <<"get_current_texture", "begin_render_pass", "set_pipeline", "draw",
      "end_render_pass", "submit", "present">>

----------------------------------------------------------------------------
(* Claims *)

\* C1: every redraw tick acquires exactly once, and a tick whose acquisition
\* succeeds does, each exactly once and in this order: acquire, begin one render
\* pass (Clear with the current clear colour, Store), set_pipeline, draw of
\* vertices 0..3 and instances 0..1, end of the pass, submit, present.
C1_FrameProtocol ==
    /\ event.kind = "RedrawRequested" => Count(state.calls, "get_current_texture") = 1
    /\ Tick(event, state.calls, "Ok") =>
          /\ \A i \in 1..Len(FrameOrder) : Count(state.calls, FrameOrder[i]) = 1
          /\ \A i \in 1..(Len(FrameOrder) - 1) :
                Pos(state.calls, FrameOrder[i]) < Pos(state.calls, FrameOrder[i + 1])
          /\ ArgsOf(state.calls, "begin_render_pass")
                = << <<"Clear", state.clear_colour, "Store">> >>
          /\ ArgsOf(state.calls, "draw") = << <<0, 3, 0, 1>> >>

C1_Witness ==
    /\ Tick(event, state.calls, "Ok")
    /\ Count(state.calls, "present") = 1
    /\ state.clear_colour.r = 2
    /\ state.use_colour

\* C2: a redraw tick whose acquisition returns Lost calls resize exactly once,
\* with the size stored before the tick, draws, submits and presents nothing,
\* and does not ask the loop to exit.
C2_LostRecovery ==
    [][Tick(event', state'.calls, "Lost") =>
          /\ ArgsOf(state'.calls, "resize") = <<state.size>>
          /\ NoDraw(state'.calls)
          /\ ~exiting']_vars

C2_Witness ==
    /\ Tick(event, state.calls, "Lost")
    /\ Count(state.calls, "resize") = 1
    /\ state.size = <<1, 2>>
    /\ ~exiting

\* C3 (as claimed): a redraw tick whose acquisition returns Outdated is handled
\* like Lost: resize is called once with the stored size, the surface is
\* reconfigured, and nothing is drawn or presented.
C3_OutdatedLikeLost ==
    Tick(event, state.calls, "Outdated") =>
        /\ ArgsOf(state.calls, "resize") = <<state.size>>
        /\ Count(state.calls, "configure") = 1
        /\ NoDraw(state.calls)

\* C4: a redraw tick whose acquisition returns OutOfMemory asks the loop to
\* exit and draws and presents nothing; once the loop is exiting, no later step
\* acquires, submits or presents.
C4_OutOfMemoryTerminates ==
    /\ [](Tick(event, state.calls, "OutOfMemory") => exiting /\ NoDraw(state.calls))
    /\ [][exiting => (state'.calls = state.calls \/ NoFrame(state'.calls))]_vars

C4_Witness ==
    /\ Tick(event, state.calls, "OutOfMemory")
    /\ Count(state.calls, "exit") = 1
    /\ exiting
    /\ state.use_colour

\* C5: a redraw tick whose acquisition returns Timeout (the one error besides
\* Lost, Outdated and OutOfMemory) draws, submits and presents nothing, calls
\* neither resize nor configure, leaves clear colour, pipeline selector, size
\* and both surface configurations as they were and does not ask the loop to
\* exit; the redraw tick right after it acquires again.
C5_OtherErrorSkipsFrame ==
    /\ [][Tick(event', state'.calls, "Timeout") =>
             /\ NoDraw(state'.calls)
             /\ Count(state'.calls, "resize") = 0
             /\ Count(state'.calls, "configure") = 0
             /\ state'.clear_colour = state.clear_colour
             /\ state'.use_colour = state.use_colour
             /\ state'.size = state.size
             /\ state'.config = state.config
             /\ state'.surface_config = state.surface_config
             /\ ~exiting']_vars
    /\ [][(/\ Tick(event, state.calls, "Timeout")
           /\ event'.kind = "RedrawRequested"
           /\ state' # state) =>
             Count(state'.calls, "get_current_texture") = 1]_vars

C5_Witness ==
    /\ Tick(event, state.calls, "Timeout")
    /\ state.size = <<2, 1>>
    /\ state.clear_colour.g = 2
    /\ ~exiting

\* C6: after resize(w, h) with w > 0 and h > 0 (from a Resized notification, or
\* from the Lost recovery with the stored size) the configuration has width w
\* and height h, the surface has been configured with exactly that
\* configuration, and a redraw tick that comes next acquires successfully and
\* presents.
C6_ResizeApplies ==
    /\ []((event.kind = "Resized" /\ event.x > 0 /\ event.y > 0) =>
             /\ ConfigSize(state.config) = <<event.x, event.y>>
             /\ ArgsOf(state.calls, "configure") = << <<event.x, event.y>> >>
             /\ state.surface_config = state.config
             /\ state.surface = "Ok")
    /\ [](Tick(event, state.calls, "Lost") =>
             /\ ConfigSize(state.config) = state.size
             /\ ArgsOf(state.calls, "configure") = <<state.size>>
             /\ state.surface_config = state.config
             /\ state.surface = "Ok")
    /\ [][(/\ event.kind = "Resized" /\ event.x > 0 /\ event.y > 0
           /\ event'.kind = "RedrawRequested") =>
             /\ Tick(event', state'.calls, "Ok")
             /\ Count(state'.calls, "present") = 1]_vars

C6_Witness ==
    /\ event = ResizedEvent(2, 1)
    /\ ConfigSize(state.config) = <<2, 1>>
    /\ state.surface_config = state.config
    /\ state.surface = "Ok"

\* C7: resize(w, h) with w = 0 or h = 0 changes neither the configuration nor
\* the stored size, does not configure the surface (its applied configuration
\* and its status stay), and does not ask the loop to exit.
C7_ZeroAreaNoOp ==
    [][(event'.kind = "Resized" /\ (event'.x = 0 \/ event'.y = 0)) =>
          /\ ArgsOf(state'.calls, "resize") = << <<event'.x, event'.y>> >>
          /\ Count(state'.calls, "configure") = 0
          /\ state'.config = state.config
          /\ state'.size = state.size
          /\ state'.surface_config = state.surface_config
          /\ state'.surface = state.surface
          /\ ~exiting']_vars

C7_Witness ==
    /\ event = ResizedEvent(0, 2)
    /\ state.size = <<2, 1>>
    /\ ConfigSize(state.config) = <<2, 1>>

\* C8: the configuration applied to the surface has positive width and height
\* in every reachable state, and so has every configure call of every closure
\* invocation (and of State::new).
C8_ConfiguredPositive ==
    /\ state.surface_config.width > 0
    /\ state.surface_config.height > 0
    /\ \A i \in 1..Len(state.calls) :
          state.calls[i].op = "configure" =>
              state.calls[i].arg[1] > 0 /\ state.calls[i].arg[2] > 0

C8_Witness ==
    /\ Tick(event, state.calls, "Lost")
    /\ ArgsOf(state.calls, "configure") = << <<1, 2>> >>
    /\ state.surface_config.width = 1
    /\ state.surface_config.height = 2

\* C9 (as claimed): whenever the surface is valid, the configuration has the
\* size carried by the most recent resize notification, also when that
\* notification was zero-area.
C9_ConfigIsLastNotification ==
    (event.kind = "Resized" /\ state.surface = "Ok") =>
        ConfigSize(state.config) = <<event.x, event.y>>

\* C9 (amended): in every reachable state the configuration, and the
\* configuration applied to the surface, have the size carried by the most
\* recent resize notification with both dimensions positive (the initial size if
\* there was none).
C9_ConfigIsLastPositiveNotification ==
    /\ ConfigSize(state.config) = notified
    /\ ConfigSize(state.surface_config) = notified

C9_Witness ==
    /\ event = ResizedEvent(0, 0)
    /\ state.surface = "Ok"
    /\ notified = <<1, 2>>
    /\ ConfigSize(state.config) = <<1, 2>>

\* C10: between closure invocations no acquired target is outstanding, and
\* within an invocation at most one is: an acquisition never starts while an
\* earlier target is neither presented nor dropped.
C10_AtMostOnePending ==
    /\ state.pending = 0
    /\ \A k \in 0..Len(state.calls) : Outstanding(state.calls, k) \in {0, 1}
    /\ \A k \in 1..Len(state.calls) :
          state.calls[k].op = "get_current_texture" =>
              Outstanding(state.calls, k - 1) = 0

C10_Witness ==
    /\ Tick(event, state.calls, "Ok")
    /\ state.pending = 0
    /\ Outstanding(state.calls, Pos(state.calls, "submit")) = 1
    /\ Outstanding(state.calls, Len(state.calls)) = 0

----------------------------------------------------------------------------
(* Input routing, frame contents and termination *)

\* the event is a press or a release of the Space key
IsToggleKey(ev) == ev.kind = "KeyboardInput" /\ ev.key = "Space"

\* the event is an Event::WindowEvent, which the closure passes to State::input
IsWindowEvent(ev) ==
    ev.kind \in {"CursorMoved", "KeyboardInput", "RedrawRequested", "Resized",
                 "CloseRequested", "Focused"}

\* State::input was called once and returned b
InputReturned(c, b) == ArgsOf(c, "input") = << <<b>> >>

\* the pipeline and the load/store operations of the frame drawn by the invocation
FramePipeline(c) == ArgsOf(c, "set_pipeline")
FrameClear(c) == ArgsOf(c, "begin_render_pass")

\* C11: a release of the toggle key that comes after a press of it (or after
\* no toggle-key event at all) changes use_colour at that one event; a release
\* whose most recent toggle-key event was already a release leaves use_colour
\* as it was, and so does every event between that is not a toggle-key event.
C11_ReleaseAfterPressFlipsOnce ==
    [][/\ (IsToggleKey(event') /\ event'.state = "Released") =>
              IF last_released
              THEN state'.use_colour = state.use_colour
              ELSE state'.use_colour # state.use_colour
       /\ (IsToggleKey(event) /\ event.state = "Pressed"
             /\ IsToggleKey(event') /\ event'.state = "Released") =>
              (~state.use_colour /\ state'.use_colour)
       /\ ~IsToggleKey(event') => state'.use_colour = state.use_colour]_vars

C11_Witness ==
    /\ event = KeyboardInputEvent("Space", "Released")
    /\ last_released
    /\ state.use_colour
    /\ state.clear_colour = BLACK

\* C12: a CursorMoved event at (x, y) sets clear_colour to (r = x, g = y,
\* b = 1, a = 1) with x and y as delivered, State::input returns true and
\* nothing else is called; use_colour, size and the surface configuration stay
\* as they were and the loop is not asked to exit.
C12_PointerSetsClearColour ==
    [][event'.kind = "CursorMoved" =>
          /\ state'.clear_colour = Color(event'.x, event'.y, 1, 1)
          /\ state'.calls = <<Call("input", <<TRUE>>)>>
          /\ state'.use_colour = state.use_colour
          /\ state'.size = state.size
          /\ state'.config = state.config
          /\ state'.surface_config = state.surface_config
          /\ ~exiting']_vars

C12_Witness ==
    /\ event = CursorMovedEvent(2, 0)
    /\ state.clear_colour = Color(2, 0, 1, 1)
    /\ state.use_colour
    /\ state.size = <<1, 2>>

\* C13: every Space key event, press or release, sets use_colour to (key state
\* = Released), State::input returns true and the closure calls nothing else:
\* no exit, no resize, no fullscreen change, no render; size, configuration,
\* fullscreen mode and clear colour stay as they were.
C13_ToggleKeyConsumed ==
    [][IsToggleKey(event') =>
          /\ state'.use_colour = (event'.state = "Released")
          /\ state'.calls = <<Call("input", <<TRUE>>)>>
          /\ ~exiting'
          /\ state'.size = state.size
          /\ state'.config = state.config
          /\ state'.fullscreen = state.fullscreen
          /\ state'.clear_colour = state.clear_colour]_vars

C13_Witness ==
    /\ event = KeyboardInputEvent("Space", "Pressed")
    /\ ~state.use_colour
    /\ state.fullscreen = "Exclusive"
    /\ InputReturned(state.calls, TRUE)

\* C14: for every window event that is neither CursorMoved nor a Space key
\* event, State::input returns false and clear_colour and use_colour stay as
\* they were; a Resized event then calls resize with its size, a CloseRequested
\* event asks the loop to exit, and a RedrawRequested event acquires a target.
C14_OtherEventsFallThrough ==
    [][(IsWindowEvent(event') /\ event'.kind # "CursorMoved" /\ ~IsToggleKey(event')) =>
          /\ InputReturned(state'.calls, FALSE)
          /\ state'.calls[1].op = "input"
          /\ state'.clear_colour = state.clear_colour
          /\ state'.use_colour = state.use_colour
          /\ event'.kind = "Resized" =>
                ArgsOf(state'.calls, "resize") = << <<event'.x, event'.y>> >>
          /\ event'.kind = "CloseRequested" =>
                (exiting' /\ Count(state'.calls, "exit") = 1)
          /\ event'.kind = "RedrawRequested" =>
                /\ Count(state'.calls, "get_current_texture") = 1
                /\ Count(state'.calls, "pre_present_notify") = 1]_vars

C14_Witness ==
    /\ event = ResizedEvent(2, 1)
    /\ InputReturned(state.calls, FALSE)
    /\ Count(state.calls, "resize") = 1
    /\ state.use_colour
    /\ state.clear_colour = Color(0, 2, 1, 1)

\* C15: a redraw tick leaves clear_colour, use_colour, size and the surface
\* configuration as they were, and a successful redraw tick that directly
\* follows a successful redraw tick presents one frame with the same clear
\* colour and the same pipeline as the frame before.
C15_RenderRepeatable ==
    [][/\ event'.kind = "RedrawRequested" =>
              /\ state'.clear_colour = state.clear_colour
              /\ state'.use_colour = state.use_colour
              /\ state'.size = state.size
              /\ state'.config = state.config
       /\ (Tick(event, state.calls, "Ok") /\ Tick(event', state'.calls, "Ok")) =>
              /\ FrameClear(state'.calls) = FrameClear(state.calls)
              /\ FramePipeline(state'.calls) = FramePipeline(state.calls)
              /\ Count(state'.calls, "present") = 1
              /\ Count(state.calls, "present") = 1]_vars

C15_Witness ==
    /\ Tick(event, state.calls, "Ok")
    /\ Count(state.calls, "present") = 1
    /\ FrameClear(state.calls) = << <<"Clear", Color(2, 2, 1, 1), "Store">> >>
    /\ FramePipeline(state.calls) = << <<"render_pipeline">> >>
    /\ state.clear_colour = Color(2, 2, 1, 1)
    /\ state.use_colour

\* C16: in every reachable state and for every size (w, h), zero-area sizes
\* included, resize applied twice with (w, h) leaves the same configuration, the
\* same applied configuration and the same size as resize applied once.
C16_ResizeIdempotent ==
    \A w \in Dims, h \in Dims :
        LET once == resize(Self, <<w, h>>)
            twice == resize(once, <<w, h>>)
        IN /\ twice.config = once.config
           /\ twice.surface_config = once.surface_config
           /\ twice.size = once.size

C16_Witness ==
    /\ event = ResizedEvent(2, 1)
    /\ state.size = <<2, 1>>
    /\ notified = <<2, 1>>
    /\ resize(Self, <<2, 1>>).config = state.config
    /\ resize(Self, <<0, 1>>).config = state.config

\* C17: the loop goes from running to exiting only in a step that handles a
\* CloseRequested event, a press of Escape, or a redraw tick whose acquisition
\* returned OutOfMemory.
C17_ExitOnlyOnCloseOrOutOfMemory ==
    [][(~exiting /\ exiting') =>
          \/ event' = CloseRequestedEvent
          \/ event' = KeyboardInputEvent("Escape", "Pressed")
          \/ Tick(event', state'.calls, "OutOfMemory")]_vars

C17_Witness ==
    /\ exiting
    /\ event = KeyboardInputEvent("Escape", "Pressed")
    /\ Count(state.calls, "exit") = 1
    /\ InputReturned(state.calls, FALSE)

\* C18: the configuration applied to the surface always equals the stored
\* configuration, whose format, present mode and alpha mode are those chosen
\* at construction; a step that changes the stored configuration calls resize
\* and ends with surface.configure called with the new width and height.
C18_ConfigAppliedWithinResize ==
    /\ [](/\ state.surface_config = state.config
          /\ state.config.format = surface_format
          /\ state.config.present_mode = CapsPresentModes[1]
          /\ state.config.alpha_mode = CapsAlphaModes[1])
    /\ [][state'.config # state.config =>
              /\ Count(state'.calls, "resize") = 1
              /\ ArgsOf(state'.calls, "configure") = <<ConfigSize(state'.config)>>]_vars

C18_Witness ==
    /\ event = ResizedEvent(1, 1)
    /\ ConfigSize(state.config) = <<1, 1>>
    /\ state.surface_config = state.config
    /\ state.config.format = "Bgra8UnormSrgb"
    /\ Count(state.calls, "configure") = 1

\* C19: the stored size always equals (config.width, config.height), and a
\* redraw tick whose acquisition returned Lost changes neither the stored
\* configuration nor the stored size: it calls surface.configure with the
\* width and height that were already stored.
C19_SizeMatchesConfig ==
    /\ [](state.size = ConfigSize(state.config))
    /\ [][Tick(event', state'.calls, "Lost") =>
              /\ state'.config = state.config
              /\ state'.size = state.size
              /\ ArgsOf(state'.calls, "configure") = <<ConfigSize(state.config)>>]_vars

C19_Witness ==
    /\ Tick(event, state.calls, "Lost")
    /\ ArgsOf(state.calls, "configure") = << <<2, 2>> >>
    /\ state.size = <<2, 2>>
    /\ ConfigSize(state.config) = <<2, 2>>
    /\ state.surface = "Ok"

\* C20: a presented frame binds render_pipeline if the most recent Space key
\* event was a release and render_pipeline2 otherwise (also when there was no
\* Space key event); it clears to (x, y, 1, 1) of the most recent CursorMoved
\* event, and to black if there was none.
C20_FrameFollowsLatestInput ==
    Tick(event, state.calls, "Ok") =>
        /\ Count(state.calls, "present") = 1
        /\ FramePipeline(state.calls) =
              << <<IF last_released THEN "render_pipeline" ELSE "render_pipeline2">> >>
        /\ FrameClear(state.calls) =
              << <<"Clear",
                   IF last_pointer = <<>>
                   THEN BLACK
                   ELSE Color(last_pointer[1], last_pointer[2], 1, 1),
                   "Store">> >>

C20_Witness ==
    /\ Tick(event, state.calls, "Ok")
    /\ last_released
    /\ last_pointer = <<0, 2>>
    /\ FramePipeline(state.calls) = << <<"render_pipeline">> >>
    /\ Count(state.calls, "present") = 1

====
